---- MODULE Spec2Model ----
(***************************************************************************)
(* task-traders: the bid lifecycle (submit, accept with cascade, reject,   *)
(* change job status) and the unread-message counter, as they run against  *)
(* the hosted store with its row-level policies and triggers.              *)
(*                                                                         *)
(* The store is the only shared state.  Every awaited request of a client  *)
(* handler is one step: the request takes effect at the store and its      *)
(* response is handled in the same step; other clients may run between two *)
(* steps of a handler.  A request may also fail in transport (ok = FALSE), *)
(* in which case the store is not touched and the handler sees an error.   *)
(***************************************************************************)
EXTENDS Integers, Sequences, FiniteSets, Bags, TLC

\* ------------------------------------------------------------------ bounds
MaxBids == 2          \* bid rows the store may hold
MaxRateCents == 2     \* hourly rate typed in the bid form, in cents
MaxHalfHours == 3     \* estimated hours typed in the bid form, in 0.5 steps
MaxMsgs == 2          \* message rows the store may hold
MaxFetches == 2       \* fetchUnreadCount calls in flight at once
MaxEvents == 2        \* message events waiting in the realtime channel

\* ------------------------------------------------------------ fixed world
Users == {"u1", "u2", "u3"}
Jobs == {"j1", "j2"}
\* jobs.user_id of the posted jobs
JobOwner == [j \in Jobs |-> IF j = "j1" THEN "u1" ELSE "u2"]
\* browser sessions showing MyJobsPage, and the account signed in on each
Clients == {"c1", "c2", "c3"}
ClientUser == [c \in Clients |-> IF c = "c3" THEN "u2" ELSE "u1"]

JobStatuses == {"open", "in-progress", "completed", "cancelled"}
BidStatuses == {"pending", "accepted", "rejected"}
NULL == 0 - 1

VARIABLES
  jobStatus,       \* store: jobs.status per job
  bids,            \* store: the bids table, a sequence of rows; the id is the index
  pc,              \* per client: the await the running handler is at
  arg,             \* per client: (bidId, jobId) of the running acceptBid
  local,           \* per client: MyJobsPage state (jobs, jobBids)
  completed,       \* per client: the jobs on which it has run acceptBid to its end
  toast,           \* the last notification shown
  lastBidRequest,  \* the answer to the last bid insert sent by SubmitBidPage
  conversations,   \* store: the conversations table, a sequence of rows; the id is the index
  messages,        \* store: the messages table, a bag of rows (id and content left out)
  counter,         \* the useUnreadMessages instance of the viewer: props and state
  fetches,         \* the fetchUnreadCount calls in flight, a bag of closures
  events,          \* message events the realtime channel has yet to hand to the counter
  counterLog,      \* the last error the counter wrote to the console
  bidsHasBankAccountNumber, \* schema: table bids still has column bank_account_number
  bidRows,         \* the last request sent to bids as such: caller, rows returned
  chat,            \* the ChatButton instances: useChat state and handleStartChat position
  assignedJobs,    \* per professional: AssignedJobsPage state (assignedJobs, loading)
  index,           \* the Index page of one browser tab: auth state, view, URL, history
  inbox            \* the useChat instance of the viewer's ChatInterface

bidVars == <<jobStatus, bids, pc, arg, local, completed, toast, lastBidRequest,
            bidsHasBankAccountNumber, bidRows>>

chatVars == <<conversations, messages, counter, fetches, events, counterLog, chat>>

viewVars == <<assignedJobs, index, inbox>>

vars == <<bidVars, chatVars, viewVars>>

calculate_bid_total_off(new) == new

\* ------------------------------------------------------------ store: bids
\* trigger calculate_bid_total, BEFORE INSERT OR UPDATE ON bids FOR EACH ROW
calculate_bid_total(new) ==
  IF new.hourly_rate # NULL /\ new.estimated_hours # NULL
  THEN [new EXCEPT !.amount = new.hourly_rate * new.estimated_hours]
  ELSE new

user_is_not_job_poster(bid_user_id, job_id) ==
  ~ \E j \in Jobs : j = job_id /\ JobOwner[j] = bid_user_id

\* policy "Users can create bids on jobs they don't own" (FOR INSERT WITH CHECK)
BidInsertPolicy(uid, row) ==
  uid = row.user_id /\ user_is_not_job_poster(uid, row.job_id)

\* policy "Bids visible to job owner and bidder" (FOR SELECT USING)
BidSelectPolicy(uid, row) ==
  uid = row.user_id \/ \E j \in Jobs : j = row.job_id /\ JobOwner[j] = uid

BidUpdatePolicyOpen(uid, row) == TRUE

\* policy "Users can update their own bids" (FOR UPDATE USING / WITH CHECK)
BidUpdatePolicy(uid, row) == uid = row.user_id

UniqueJobProfessionalOff(tbl, row) == TRUE

\* constraint UNIQUE(job_id, professional_id)
UniqueJobProfessional(tbl, row) ==
  ~ \E i \in DOMAIN tbl :
      tbl[i].job_id = row.job_id /\ tbl[i].professional_id = row.professional_id

\* insert of one row by account uid: the answer code and the table afterwards.
\* The request names column bank_account_number; the migrations end with
\* ALTER TABLE bids DROP COLUMN bank_account_number, the generated types still
\* list the column: a request naming a column the table lacks is refused
InsertBid(tbl, uid, row) ==
  LET stored == calculate_bid_total(row) IN
  IF ~ bidsHasBankAccountNumber THEN [code |-> "column", tbl |-> tbl]
  ELSE IF ~ BidInsertPolicy(uid, stored) THEN [code |-> "rls", tbl |-> tbl]
  ELSE IF ~ UniqueJobProfessional(tbl, stored) THEN [code |-> "unique", tbl |-> tbl]
  ELSE [code |-> "ok", tbl |-> Append(tbl, stored)]

\* update bids set status = s where id in ids, sent by account uid: rows the
\* policies hide from uid are not matched, and that is not an error
UpdateBidStatus(tbl, uid, ids, s) ==
  [i \in DOMAIN tbl |->
     IF i \in ids /\ BidSelectPolicy(uid, tbl[i]) /\ BidUpdatePolicy(uid, tbl[i])
     THEN calculate_bid_total([tbl[i] EXCEPT !.status = s])
     ELSE tbl[i]]

BidsOfJob(tbl, j) == {i \in DOMAIN tbl : tbl[i].job_id = j}

\* ------------------------------------------------ requests to the bids table
\* an update of the status of rows ids sent by account uid, as acceptBid and
\* rejectBid send it
BidUpdateRequest(uid, ids, st) ==
  /\ ids \subseteq DOMAIN bids /\ st \in BidStatuses
  /\ bids' = UpdateBidStatus(bids, uid, ids, st)
  /\ bidRows' = [kind |-> "update", uid |-> uid, rows |-> {}]
  /\ UNCHANGED <<jobStatus, pc, arg, local, completed, toast, lastBidRequest, chatVars,
                 bidsHasBankAccountNumber, viewVars>>

\* a select on bids sent by account uid, as fetchMyJobs sends it
BidSelectRequest(uid) ==
  /\ bidRows' = [kind |-> "select", uid |-> uid,
                 rows |-> {i \in DOMAIN bids : BidSelectPolicy(uid, bids[i])}]
  /\ UNCHANGED <<jobStatus, bids, pc, arg, local, completed, toast, lastBidRequest, chatVars,
                 bidsHasBankAccountNumber, viewVars>>

\* ----------------------------------------------------------- SubmitBidPage
\* Math.round(total * 100) for total = rate * hours, the rate typed in cent
\* steps (rc cents) and the hours in 0.5 steps (h2 halves): exact when
\* rc * h2 / 2 is whole; at a tie the floating-point product may fall on
\* either side of .5
ClientAmounts(rc, h2) ==
  IF (rc * h2) % 2 = 0 THEN {(rc * h2) \div 2}
  ELSE {(rc * h2) \div 2, (rc * h2) \div 2 + 1}

\* parseInt(formData.estimated_hours): the integer part of the typed hours
parseIntHours(h2) == h2 \div 2

\* SubmitBidPage.handleSubmit by signed-in account u on job j
SubmitBid(u, j, rc, h2, amt, ok) ==
  /\ Len(bids) < MaxBids
  /\ amt \in ClientAmounts(rc, h2)
  /\ LET row == [job_id |-> j, professional_id |-> u, user_id |-> u,
                 amount |-> amt, hourly_rate |-> rc,
                 estimated_hours |-> parseIntHours(h2), status |-> "pending"]
         res == IF ok THEN InsertBid(bids, u, row)
                ELSE [code |-> "network", tbl |-> bids]
     IN /\ bids' = res.tbl
        /\ lastBidRequest' = res.code
        /\ toast' = IF res.code = "ok" THEN "Bid submitted successfully!"
                    ELSE "Error submitting bid"
  /\ UNCHANGED <<jobStatus, pc, arg, local, completed, chatVars, bidsHasBankAccountNumber, bidRows, viewVars>>

\* -------------------------------------------------------------- MyJobsPage
NoLocal == [jobs |-> << >>, bids |-> << >>]
NoArg == [bid |-> 0, job |-> "none"]

\* the page is (re)mounted: state from useState initial values, fetchMyJobs starts
Mount(c) ==
  /\ pc[c] = "idle"
  /\ pc' = [pc EXCEPT ![c] = "fetchJobs"]
  /\ local' = [local EXCEPT ![c] = NoLocal]
  /\ UNCHANGED <<jobStatus, bids, arg, completed, toast, lastBidRequest, chatVars, bidsHasBankAccountNumber, bidRows, viewVars>>

AllJobs(u) == Jobs

\* the rows of the jobs query of fetchMyJobs: .eq('user_id', user.id)
JobsOf(u) == {j \in Jobs : JobOwner[j] = u}

\* fetchMyJobs, first request: jobs where user_id = user.id
FetchJobs(c, ok) ==
  /\ pc[c] = "fetchJobs"
  /\ IF ok
     THEN LET mine == JobsOf(ClientUser[c]) IN
          /\ local' = [local EXCEPT ![c].jobs = [j \in mine |-> jobStatus[j]]]
          /\ pc' = [pc EXCEPT ![c] = IF mine = {} THEN "idle" ELSE "fetchBids"]
          /\ UNCHANGED toast
     ELSE /\ toast' = "Failed to load your jobs"
          /\ pc' = [pc EXCEPT ![c] = "idle"]
          /\ UNCHANGED local
  /\ UNCHANGED <<jobStatus, bids, arg, completed, lastBidRequest, chatVars, bidsHasBankAccountNumber, bidRows, viewVars>>

\* fetchMyJobs, second request: bids where job_id in jobIds
FetchBids(c, ok) ==
  /\ pc[c] = "fetchBids"
  /\ IF ok
     THEN LET seen == {i \in DOMAIN bids :
                          /\ bids[i].job_id \in DOMAIN local[c].jobs
                          /\ BidSelectPolicy(ClientUser[c], bids[i])} IN
          /\ local' = [local EXCEPT ![c].bids = [i \in seen |-> bids[i].status]]
          /\ UNCHANGED toast
     ELSE /\ toast' = "Failed to load your jobs"
          /\ UNCHANGED local
  /\ pc' = [pc EXCEPT ![c] = "idle"]
  /\ UNCHANGED <<jobStatus, bids, arg, completed, lastBidRequest, chatVars, bidsHasBankAccountNumber, bidRows, viewVars>>

\* the job card of j is rendered with its status Select
ShowsJob(c, j) == pc[c] = "idle" /\ j \in DOMAIN local[c].jobs

\* bid b is listed under "Pending Bids" of job j with enabled Accept / Reject
ShowsPendingBid(c, b, j) ==
  /\ ShowsJob(c, j)
  /\ local[c].jobs[j] = "open"
  /\ b \in DOMAIN local[c].bids
  /\ b \in BidsOfJob(bids, j)
  /\ local[c].bids[b] = "pending"

UpdateJobStatusFromOpen(c, j, s, ok) ==
  /\ ShowsJob(c, j)
  /\ s \in JobStatuses /\ s # local[c].jobs[j]
  /\ IF ok /\ jobStatus[j] = "open"
     THEN /\ jobStatus' = [jobStatus EXCEPT ![j] = s]
          /\ local' = [local EXCEPT ![c].jobs[j] = s]
          /\ toast' = "Job status updated"
     ELSE /\ toast' = "Failed to update job status"
          /\ UNCHANGED <<jobStatus, local>>
  /\ UNCHANGED <<bids, pc, arg, completed, lastBidRequest, chatVars, bidsHasBankAccountNumber, bidRows, viewVars>>

\* updateJobStatus(jobId, newStatus), picked in the status Select
UpdateJobStatus(c, j, s, ok) ==
  /\ ShowsJob(c, j)
  /\ s \in JobStatuses /\ s # local[c].jobs[j]
  /\ IF ok
     THEN /\ jobStatus' = [jobStatus EXCEPT ![j] = s]
          /\ local' = [local EXCEPT ![c].jobs[j] = s]
          /\ toast' = "Job status updated"
     ELSE /\ toast' = "Failed to update job status"
          /\ UNCHANGED <<jobStatus, local>>
  /\ UNCHANGED <<bids, pc, arg, completed, lastBidRequest, chatVars, bidsHasBankAccountNumber, bidRows, viewVars>>

\* acceptBid, step (a): update bids set status = 'accepted' where id = bidId
AcceptTarget(c, b, j, ok) ==
  /\ ShowsPendingBid(c, b, j)
  /\ IF ok
     THEN /\ bids' = UpdateBidStatus(bids, ClientUser[c], {b}, "accepted")
          /\ pc' = [pc EXCEPT ![c] = "acceptSiblings"]
          /\ arg' = [arg EXCEPT ![c] = [bid |-> b, job |-> j]]
          /\ UNCHANGED toast
     ELSE /\ toast' = "Failed to accept bid"
          /\ UNCHANGED <<bids, pc, arg>>
  /\ UNCHANGED <<jobStatus, local, completed, lastBidRequest, chatVars, bidsHasBankAccountNumber, bidRows, viewVars>>

\* acceptBid, step (b): update bids set status = 'rejected'
\*                      where job_id = jobId and id <> bidId
AcceptSiblings(c, ok) ==
  /\ pc[c] = "acceptSiblings"
  /\ IF ok
     THEN /\ bids' = UpdateBidStatus(bids, ClientUser[c],
                                     BidsOfJob(bids, arg[c].job) \ {arg[c].bid}, "rejected")
          /\ pc' = [pc EXCEPT ![c] = "acceptJob"]
          /\ UNCHANGED <<arg, toast>>
     ELSE /\ toast' = "Failed to accept bid"
          /\ pc' = [pc EXCEPT ![c] = "idle"]
          /\ arg' = [arg EXCEPT ![c] = NoArg]
          /\ UNCHANGED bids
  /\ UNCHANGED <<jobStatus, local, completed, lastBidRequest, chatVars, bidsHasBankAccountNumber, bidRows, viewVars>>

AcceptJobOpensChat(c, ok) ==
  /\ pc[c] = "acceptJob"
  /\ jobStatus' = [jobStatus EXCEPT ![arg[c].job] = "in-progress"]
  /\ conversations' = Append(conversations,
                             [job_id |-> arg[c].job, job_poster_id |-> ClientUser[c],
                              professional_id |-> bids[arg[c].bid].professional_id])
  /\ toast' = "Bid accepted successfully!"
  /\ pc' = [pc EXCEPT ![c] = "idle"]
  /\ arg' = [arg EXCEPT ![c] = NoArg]
  /\ completed' = [completed EXCEPT ![c] = @ \cup {arg[c].job}]
  /\ UNCHANGED <<bids, local, lastBidRequest, bidsHasBankAccountNumber, bidRows,
                 messages, counter, fetches, events, counterLog, chat, viewVars>>

\* acceptBid, step (c): await updateJobStatus(jobId, 'in-progress'), which
\* catches its own error; then the local bid list is rewritten and the
\* success notification shown
AcceptJob(c, ok) ==
  /\ pc[c] = "acceptJob"
  /\ LET b == arg[c].bid
         j == arg[c].job
         marked == [i \in DOMAIN local[c].bids |->
                      IF i \in BidsOfJob(bids, j)
                      THEN (IF i = b THEN "accepted" ELSE "rejected")
                      ELSE local[c].bids[i]]
     IN /\ IF ok
           THEN /\ jobStatus' = [jobStatus EXCEPT ![j] = "in-progress"]
                /\ local' = [local EXCEPT ![c].jobs[j] = "in-progress", ![c].bids = marked]
           ELSE /\ UNCHANGED jobStatus
                /\ local' = [local EXCEPT ![c].bids = marked]
        /\ toast' = "Bid accepted successfully!"
  /\ pc' = [pc EXCEPT ![c] = "idle"]
  /\ arg' = [arg EXCEPT ![c] = NoArg]
  /\ completed' = [completed EXCEPT ![c] = @ \cup {arg[c].job}]
  /\ UNCHANGED <<bids, lastBidRequest, chatVars, bidsHasBankAccountNumber, bidRows, viewVars>>

\* rejectBid(bidId, jobId): update bids set status = 'rejected' where id = bidId
RejectBid(c, b, j, ok) ==
  /\ ShowsPendingBid(c, b, j)
  /\ IF ok
     THEN /\ bids' = UpdateBidStatus(bids, ClientUser[c], {b}, "rejected")
          /\ local' = [local EXCEPT ![c].bids[b] = "rejected"]
          /\ toast' = "Bid rejected"
     ELSE /\ toast' = "Failed to reject bid"
          /\ UNCHANGED <<bids, local>>
  /\ UNCHANGED <<jobStatus, pc, arg, completed, lastBidRequest, chatVars, bidsHasBankAccountNumber, bidRows, viewVars>>

\* -------------------------------------------------------- AssignedJobsPage
\* useState initial values: assignedJobs [], loading true
NoAssigned == [jobs |-> << >>, loading |-> TRUE]

\* the rows of the bids query of fetchAssignedJobs for professional u:
\* .eq('professional_id', user.id).eq('status', 'accepted')
\* .eq('status', 'in-progress'); the filters are conjoined
AssignedRows(tbl, u) ==
  {i \in DOMAIN tbl :
     /\ BidSelectPolicy(u, tbl[i])
     /\ tbl[i].professional_id = u
     /\ tbl[i].status = "accepted"
     /\ tbl[i].status = "in-progress"}

\* fetchAssignedJobs of the signed-in professional u: one entry per returned
\* bid row, carrying the job of the row
FetchAssignedJobs(u, ok) ==
  /\ IF ok
     THEN /\ assignedJobs' = [assignedJobs EXCEPT
                                ![u] = [jobs |-> [i \in AssignedRows(bids, u) |-> bids[i].job_id],
                                        loading |-> FALSE]]
          /\ UNCHANGED toast
     ELSE /\ assignedJobs' = [assignedJobs EXCEPT ![u].loading = FALSE]
          /\ toast' = "Failed to load assigned jobs"
  /\ UNCHANGED <<jobStatus, bids, pc, arg, local, completed, lastBidRequest,
                 bidsHasBankAccountNumber, bidRows, chatVars, index, inbox>>

\* ------------------------------------------------------------------ Index
\* the values of the view parameter the pages and the navigation bar use
Views == {"home", "auth", "post-job", "browse-jobs", "professionals", "my-jobs",
          "assigned-jobs", "submit-bid", "job-details"}
Roles == {"job_poster", "professional"}

\* the page loaded at ?view=v: useState('home'), then the URL effect sets the
\* view from location.search; useAuth starts with loading true and no user
OpenedAt(v) ==
  [loading |-> TRUE, isAuthenticated |-> FALSE, role |-> "none",
   currentView |-> v, search |-> v, history |-> {v}]

\* Navigation.getNavItems, and the Sign In button shown to signed-out users
NavItems(isAuthenticated, role) ==
  IF isAuthenticated
  THEN {"home"} \cup (IF role = "professional" THEN {"browse-jobs"}
                      ELSE IF role = "job_poster"
                      THEN {"my-jobs", "professionals", "post-job"}
                      ELSE {})
  ELSE {"home", "browse-jobs", "professionals", "auth"}

\* the views the buttons of the displayed page pass to onViewChange
PageRequests(view) ==
  CASE view = "auth" -> {"home"}
    [] view = "post-job" -> {"home", "browse-jobs", "auth"}
    [] view = "browse-jobs" -> {"home", "submit-bid"}
    [] view = "professionals" -> {"home"}
    [] view = "my-jobs" -> {"home", "post-job", "job-details"}
    [] view = "assigned-jobs" -> {"home", "browse-jobs", "job-details"}
    [] view = "submit-bid" -> {"browse-jobs", "auth"}
    [] view = "job-details" -> {"browse-jobs"}
    [] OTHER -> {"post-job", "browse-jobs", "professionals"}

\* the auth guard effect, run when isAuthenticated or loading has changed
AuthGuard(ix) ==
  IF ~ ix.loading /\ ~ ix.isAuthenticated
  THEN [ix EXCEPT !.currentView = "auth", !.search = "auth",
                  !.history = (@ \ {ix.search}) \cup {"auth"}]
  ELSE ix

\* handleViewChange(view): setCurrentView, navigate with a new history entry;
\* the URL effect then sets the view from the new location.search
ViewChanged(ix, v) ==
  [ix EXCEPT !.currentView = v, !.search = v, !.history = @ \cup {v}]

\* the browser opens the application at ?view=v
OpenAt(v) ==
  /\ v \in Views
  /\ index' = OpenedAt(v)
  /\ UNCHANGED <<bidVars, chatVars, assignedJobs, inbox>>

\* useAuth learns the session: loading becomes false, the guard effect runs
AuthLoaded(signedIn, role) ==
  /\ index.loading
  /\ index' = AuthGuard([index EXCEPT !.loading = FALSE, !.isAuthenticated = signedIn,
                                      !.role = IF signedIn THEN role ELSE "none"])
  /\ UNCHANGED <<bidVars, chatVars, assignedJobs, inbox>>

\* a click in the navigation bar: onViewChange is setCurrentView
NavClick(v) ==
  /\ ~ index.loading
  /\ v \in NavItems(index.isAuthenticated, index.role)
  /\ index' = [index EXCEPT !.currentView = v]
  /\ UNCHANGED <<bidVars, chatVars, assignedJobs, inbox>>

\* a button of the displayed page calls handleViewChange(v)
HandleViewChange(v) ==
  /\ ~ index.loading
  /\ v \in PageRequests(index.currentView)
  /\ index' = ViewChanged(index, v)
  /\ UNCHANGED <<bidVars, chatVars, assignedJobs, inbox>>

\* the browser moves to another entry of the history: location.search
\* changes and the URL effect sets the view from it
HistoryMove(v) ==
  /\ ~ index.loading
  /\ v \in index.history \ {index.search}
  /\ index' = [index EXCEPT !.currentView = v, !.search = v]
  /\ UNCHANGED <<bidVars, chatVars, assignedJobs, inbox>>

\* a sign-in on AuthPage succeeds: the guard effect finds a user, and the
\* effect of AuthPage calls onViewChange('home')
SignIn(role) ==
  /\ ~ index.loading /\ ~ index.isAuthenticated /\ index.currentView = "auth"
  /\ role \in Roles
  /\ index' = ViewChanged([index EXCEPT !.isAuthenticated = TRUE, !.role = role], "home")
  /\ UNCHANGED <<bidVars, chatVars, assignedJobs, inbox>>

\* Sign Out in the navigation bar: the user is gone and the guard effect runs
SignOut ==
  /\ ~ index.loading /\ index.isAuthenticated
  /\ index' = AuthGuard([index EXCEPT !.isAuthenticated = FALSE, !.role = "none"])
  /\ UNCHANGED <<bidVars, chatVars, assignedJobs, inbox>>

\* ------------------------------------------------ store: conversations, messages
\* (job_id, job_poster_id, professional_id) of the chat buttons the viewer is shown
Triples == {<<"j1", "u1", "u2">>, <<"j1", "u1", "u3">>}
NoTriple == <<"none", "none", "none">>
\* the account signed in where the counter runs
Viewer == "u1"

TripleOf(row) == <<row.job_id, row.job_poster_id, row.professional_id>>

\* policies "Users can view conversations they are part of" and
\* "Users can create conversations": the same condition
ConversationPolicy(uid, row) == uid = row.job_poster_id \/ uid = row.professional_id

UniqueConversationOff(tbl, row) == TRUE

\* constraint UNIQUE(job_id, job_poster_id, professional_id)
UniqueConversation(tbl, row) ==
  ~ \E i \in DOMAIN tbl : TripleOf(tbl[i]) = TripleOf(row)

InsertConversation(tbl, uid, row) ==
  IF ~ ConversationPolicy(uid, row) THEN [code |-> "rls", tbl |-> tbl]
  ELSE IF ~ UniqueConversation(tbl, row) THEN [code |-> "unique", tbl |-> tbl]
  ELSE [code |-> "ok", tbl |-> Append(tbl, row)]

\* policy "Users can create messages" (FOR INSERT WITH CHECK)
MessageInsertPolicy(uid, row) == uid = row.sender_id

\* policies "Users can view messages they sent or received" and
\* "Users can update their own messages": the same condition
MessagePolicy(uid, row) == uid = row.sender_id \/ uid = row.recipient_id

\* the rows of table tbl (a bag) that are in set S, with their multiplicity
Matching(tbl, S) == [r \in BagToSet(tbl) \cap S |-> tbl[r]]

\* the rows a message event is raised for reach the channel of the counter
\* when they match its filter recipient_id=eq.<viewer> and it is subscribed
Subscribed == counter.triple # NoTriple
EventsForAll(rows) == IF Subscribed THEN BagCardinality(rows) ELSE 0

EventsFor(rows) ==
  IF Subscribed
  THEN BagCardinality(Matching(rows, {r \in BagToSet(rows) : r.recipient_id = Viewer}))
  ELSE 0

\* payload.new of a message event, as far as the chat view reads it
Payload(row) ==
  [conversation_id |-> row.conversation_id, sender_id |-> row.sender_id,
   recipient_id |-> row.recipient_id]

\* useState initial values of useChat, no channel and no fetchMessages call
NoInboxFetch == [stage |-> "none", conv |-> 0, data |-> << >>]
NoInbox ==
  [open |-> FALSE, conversations |-> {}, messages |-> << >>, active |-> 0,
   pending |-> << >>, fetch |-> NoInboxFetch, logged |-> 0]

\* the INSERT events the inserted rows (a bag of at most one row) raise on the
\* channel of the chat view: filter recipient_id=eq.<viewer>
InboxEventsFor(rows) ==
  IF inbox.open /\ \E r \in BagToSet(rows) : r.recipient_id = Viewer
  THEN <<Payload(CHOOSE r \in BagToSet(rows) : r.recipient_id = Viewer)>>
  ELSE << >>

\* createConversation(jobId, professionalId, jobPosterId) called by account u
CreateConversation(u, t, ok) ==
  /\ t \in Triples /\ u \in {t[2], t[3]}
  /\ LET row == [job_id |-> t[1], job_poster_id |-> t[2], professional_id |-> t[3]]
         res == IF ok THEN InsertConversation(conversations, u, row)
                ELSE [code |-> "network", tbl |-> conversations]
     IN conversations' = res.tbl
  /\ UNCHANGED <<bidVars, viewVars, messages, counter, fetches, events, counterLog, chat>>

\* sendMessage(conversationId, content) by participant u: the insert request
SendMessage(u, k, ok) ==
  /\ k \in DOMAIN conversations
  /\ u \in {conversations[k].job_poster_id, conversations[k].professional_id}
  /\ BagCardinality(messages) < MaxMsgs
  /\ LET conv == conversations[k]
         row == [conversation_id |-> k, sender_id |-> u,
                 recipient_id |-> IF u = conv.job_poster_id THEN conv.professional_id
                                  ELSE conv.job_poster_id,
                 read |-> FALSE]
         new == IF ok /\ MessageInsertPolicy(u, row) THEN SetToBag({row}) ELSE EmptyBag
     IN /\ events + EventsFor(new) <= MaxEvents
        /\ Len(inbox.pending) + Len(InboxEventsFor(new)) <= MaxEvents
        /\ messages' = messages (+) new
        /\ events' = events + EventsFor(new)
        /\ inbox' = [inbox EXCEPT !.pending = @ \o InboxEventsFor(new)]
  /\ UNCHANGED <<bidVars, assignedJobs, index, conversations, counter, fetches, counterLog,
                 chat>>

\* the rows of bag rows with read_at set
ReadNow(rows) ==
  [r \in {[x EXCEPT !.read = TRUE] : x \in BagToSet(rows)} |->
     rows[[r EXCEPT !.read = FALSE]]]

\* markMessagesAsRead(conversationId) by account u: update messages set read_at
\* where conversation_id = k and recipient_id = u and read_at is null
MarkMessagesAsRead(u, k, ok) ==
  /\ k \in DOMAIN conversations
  /\ u \in {conversations[k].job_poster_id, conversations[k].professional_id}
  /\ LET hit == {r \in BagToSet(messages) :
                   /\ r.conversation_id = k
                   /\ r.recipient_id = u
                   /\ ~ r.read
                   /\ MessagePolicy(u, r)}
         done == IF ok THEN Matching(messages, hit) ELSE EmptyBag
     IN /\ events + EventsFor(ReadNow(done)) <= MaxEvents
        /\ messages' = (messages (-) done) (+) ReadNow(done)
        /\ events' = events + EventsFor(ReadNow(done))
  /\ UNCHANGED <<bidVars, viewVars, conversations, counter, fetches, counterLog, chat>>

\* ------------------------------------------------------------- ChatButton
\* the rendered chat buttons: who is signed in and the triple of the props
Buttons == {"b1", "b2", "b3"}
ButtonUser == [b \in Buttons |-> IF b = "b2" THEN "u2" ELSE "u1"]
ButtonTriple == [b \in Buttons |-> IF b = "b3" THEN <<"j1", "u1", "u3">>
                                   ELSE <<"j1", "u1", "u2">>]

\* useChat state of a button: conversations (ids) is empty until fetched;
\* made is the id returned by the insert of createConversation; result is how
\* the last handleStartChat went, opened the id given to onStartChat
NoChat == [conversations |-> {}, pc |-> "idle", made |-> 0, result |-> "none", opened |-> 0]

\* the rows fetchConversations of account u gets
ConversationsOf(u) ==
  {k \in DOMAIN conversations :
     /\ u \in {conversations[k].job_poster_id, conversations[k].professional_id}
     /\ ConversationPolicy(u, conversations[k])}

\* fetchConversations (on mount, and on a message event): one query
FetchConversations(b, ok) ==
  /\ chat[b].pc = "idle"
  /\ chat' = [chat EXCEPT ![b].conversations = IF ok THEN ConversationsOf(ButtonUser[b]) ELSE @]
  /\ UNCHANGED <<bidVars, viewVars, conversations, messages, counter, fetches, events, counterLog>>

\* handleStartChat: onStartChat(existing id) when the local list has the
\* triple, else createConversation up to the answer to its insert
HandleStartChat(b, ok) ==
  /\ chat[b].pc = "idle"
  /\ LET t == ButtonTriple[b]
         known == {k \in chat[b].conversations : TripleOf(conversations[k]) = t}
         row == [job_id |-> t[1], job_poster_id |-> t[2], professional_id |-> t[3]]
         res == IF ok THEN InsertConversation(conversations, ButtonUser[b], row)
                ELSE [code |-> "network", tbl |-> conversations]
     IN IF known # {}
        THEN /\ chat' = [chat EXCEPT ![b].result = "existing",
                                     ![b].opened = CHOOSE k \in known : TRUE]
             /\ UNCHANGED conversations
        ELSE /\ conversations' = res.tbl
             /\ chat' = IF res.code = "ok"
                        THEN [chat EXCEPT ![b].pc = "created", ![b].made = Len(res.tbl)]
                        ELSE [chat EXCEPT ![b].result = res.code, ![b].opened = 0]
  /\ UNCHANGED <<bidVars, viewVars, messages, counter, fetches, events, counterLog>>

\* createConversation after a successful insert: await fetchConversations(),
\* return data.id; handleStartChat then calls onStartChat(id)
CreatedConversation(b, ok) ==
  /\ chat[b].pc = "created"
  /\ chat' = [chat EXCEPT ![b].conversations = IF ok THEN ConversationsOf(ButtonUser[b]) ELSE @,
                          ![b].pc = "idle",
                          ![b].made = 0,
                          ![b].result = "created",
                          ![b].opened = chat[b].made]
  /\ UNCHANGED <<bidVars, viewVars, conversations, messages, counter, fetches, events, counterLog>>

\* -------------------------------------------- ChatInterface (useChat)
\* a sequence holding the rows of bag rows, each as often as the bag has it
RECURSIVE BagToSeq(_)
BagToSeq(rows) ==
  IF rows = EmptyBag THEN << >>
  ELSE LET r == CHOOSE x \in BagToSet(rows) : TRUE
       IN <<r>> \o BagToSeq(rows (-) SetToBag({r}))

\* the rows the select of fetchMessages returns for conversation k
FetchedMessages(k) ==
  LET rows == Matching(messages, {r \in BagToSet(messages) :
                                    r.conversation_id = k /\ MessagePolicy(Viewer, r)})
      seq == BagToSeq(rows)
  IN [i \in 1..Len(seq) |-> Payload(seq[i])]

\* ChatInterface is mounted for the viewer: fetchConversations on mount, and
\* the channel is subscribed with no active conversation
OpenChat ==
  /\ ~ inbox.open
  /\ inbox' = [NoInbox EXCEPT !.open = TRUE, !.conversations = ConversationsOf(Viewer)]
  /\ UNCHANGED <<bidVars, chatVars, assignedJobs, index>>

\* openConversation(k): fetchMessages(k) sends its select
OpenConversation(k) ==
  /\ inbox.open /\ inbox.fetch.stage = "none"
  /\ k \in inbox.conversations
  /\ inbox' = [inbox EXCEPT !.fetch = [stage |-> "select", conv |-> k, data |-> << >>]]
  /\ UNCHANGED <<bidVars, chatVars, assignedJobs, index>>

\* the store answers the select of fetchMessages
SelectMessages ==
  /\ inbox.fetch.stage = "select"
  /\ inbox' = [inbox EXCEPT !.fetch.stage = "data",
                            !.fetch.data = FetchedMessages(inbox.fetch.conv)]
  /\ UNCHANGED <<bidVars, chatVars, assignedJobs, index>>

\* the messages shown after the callback of the channel has run for event e
ShownAfterInsertAlways(list, active, e) == Append(list, e)

ShownAfterInsert(list, active, e) ==
  IF e.conversation_id = active THEN Append(list, e) ELSE list

\* fetchMessages goes on with the answer: setMessages(data),
\* setActiveConversation(k); the subscription effect depends on
\* activeConversation and replaces the channel when it has changed
ReceiveMessages ==
  /\ inbox.fetch.stage = "data"
  /\ inbox' = [inbox EXCEPT !.messages = inbox.fetch.data,
                            !.active = inbox.fetch.conv,
                            !.pending = IF inbox.fetch.conv = inbox.active THEN @ ELSE << >>,
                            !.fetch.stage = "mark",
                            !.fetch.data = << >>]
  /\ UNCHANGED <<bidVars, chatVars, assignedJobs, index>>

\* fetchMessages ends: await markMessagesAsRead(k), setLoading(false)
MarkFetchedAsRead ==
  /\ inbox.fetch.stage = "mark"
  /\ LET hit == {r \in BagToSet(messages) :
                   /\ r.conversation_id = inbox.fetch.conv
                   /\ r.recipient_id = Viewer
                   /\ ~ r.read
                   /\ MessagePolicy(Viewer, r)}
         done == Matching(messages, hit)
     IN /\ events + EventsFor(ReadNow(done)) <= MaxEvents
        /\ messages' = (messages (-) done) (+) ReadNow(done)
        /\ events' = events + EventsFor(ReadNow(done))
  /\ inbox' = [inbox EXCEPT !.fetch = NoInboxFetch]
  /\ UNCHANGED <<bidVars, assignedJobs, index, conversations, counter, fetches, counterLog,
                 chat>>

\* the channel hands an INSERT event to the callback: the payload is logged,
\* appended when it is of the active conversation, and fetchConversations()
\* refreshes the conversation list
DeliverInsert ==
  /\ inbox.pending # << >>
  /\ LET e == Head(inbox.pending)
     IN inbox' = [inbox EXCEPT !.pending = Tail(@),
                               !.logged = e.conversation_id,
                               !.messages = ShownAfterInsert(@, inbox.active, e),
                               !.conversations = ConversationsOf(Viewer)]
  /\ UNCHANGED <<bidVars, chatVars, assignedJobs, index>>

\* backToConversations: setActiveConversation(null); the channel is replaced
BackToConversations ==
  /\ inbox.open /\ inbox.active # 0
  /\ inbox' = [inbox EXCEPT !.active = 0, !.pending = << >>]
  /\ UNCHANGED <<bidVars, chatVars, assignedJobs, index>>

\* ------------------------------------------------------- useUnreadMessages
\* a fetchUnreadCount call whose first request the store has yet to answer
NewFetch(t) == [triple |-> t, stage |-> "conversation", conv |-> 0, count |-> 0]

\* a fetchUnreadCount call whose last response is on its way to the client:
\* on arrival it runs setUnreadCount(n); the closure is of no use any more
Outcome(n) == [triple |-> NoTriple, stage |-> "set", conv |-> 0, count |-> n]

\* the effect runs for props t (first mount, or the props changed): the old
\* channel is removed, fetchUnreadCount() is called and a channel subscribed
SetProps(t) ==
  /\ t \in Triples /\ t # counter.triple
  /\ BagCardinality(fetches) < MaxFetches
  /\ counter' = [counter EXCEPT !.triple = t]
  /\ fetches' = fetches (+) SetToBag({NewFetch(t)})
  /\ events' = 0
  /\ UNCHANGED <<bidVars, viewVars, conversations, messages, counterLog, chat>>

\* the channel hands one message event to the callback: fetchUnreadCount()
DeliverEvent ==
  /\ events > 0
  /\ BagCardinality(fetches) < MaxFetches
  /\ events' = events - 1
  /\ fetches' = fetches (+) SetToBag({NewFetch(counter.triple)})
  /\ UNCHANGED <<bidVars, viewVars, conversations, messages, counter, counterLog, chat>>

\* the rows of conversations the lookup of fetch f returns (maybeSingle)
LookupConversation(f) ==
  {k \in DOMAIN conversations :
     TripleOf(conversations[k]) = f.triple /\ ConversationPolicy(Viewer, conversations[k])}

NoConversationKeep(count) == count

\* the count set when the lookup finds no conversation: setUnreadCount(0)
NoConversationCount(count) == 0

\* fetchUnreadCount, first request: the store answers the lookup of the
\* conversation of the triple; an error is handled at once, a found
\* conversation leads to the count request, no conversation to setUnreadCount(0)
FetchConversation(f, ok) ==
  /\ BagIn(f, fetches) /\ f.stage = "conversation"
  /\ LET found == LookupConversation(f) IN
     IF ~ ok
     THEN /\ counterLog' = "Error fetching conversation"
          /\ counter' = [counter EXCEPT !.loading = FALSE]
          /\ fetches' = fetches (-) SetToBag({f})
     ELSE IF found = {}
     THEN /\ fetches' = (fetches (-) SetToBag({f}))
                        (+) SetToBag({Outcome(NoConversationCount(counter.unreadCount))})
          /\ UNCHANGED <<counter, counterLog>>
     ELSE /\ fetches' = (fetches (-) SetToBag({f}))
                        (+) SetToBag({[f EXCEPT !.stage = "count",
                                                !.conv = CHOOSE k \in found : TRUE]})
          /\ UNCHANGED <<counter, counterLog>>
  /\ UNCHANGED <<bidVars, viewVars, conversations, messages, events, chat>>

UnreadRowsOfViewer(k) ==
  Matching(messages, {r \in BagToSet(messages) : r.recipient_id = Viewer /\ ~ r.read})

\* the rows the count request of the viewer counts
UnreadRows(k) ==
  Matching(messages, {r \in BagToSet(messages) :
                        /\ r.conversation_id = k
                        /\ r.recipient_id = Viewer
                        /\ ~ r.read
                        /\ MessagePolicy(Viewer, r)})

\* fetchUnreadCount, second request: the store counts the unread messages to
\* the viewer and answers
CountUnread(f, ok) ==
  /\ BagIn(f, fetches) /\ f.stage = "count"
  /\ IF ok
     THEN /\ fetches' = (fetches (-) SetToBag({f}))
                        (+) SetToBag({Outcome(BagCardinality(UnreadRows(f.conv)))})
          /\ UNCHANGED <<counter, counterLog>>
     ELSE /\ counterLog' = "Error counting unread messages"
          /\ counter' = [counter EXCEPT !.loading = FALSE]
          /\ fetches' = fetches (-) SetToBag({f})
  /\ UNCHANGED <<bidVars, viewVars, conversations, messages, events, chat>>

\* the last response of a fetchUnreadCount call arrives: setUnreadCount(count),
\* then setLoading(false)
ReturnCount(f) ==
  /\ BagIn(f, fetches) /\ f.stage = "set"
  /\ counter' = [counter EXCEPT !.unreadCount = f.count, !.loading = FALSE]
  /\ fetches' = fetches (-) SetToBag({f})
  /\ UNCHANGED <<bidVars, viewVars, conversations, messages, events, counterLog, chat>>

\* ------------------------------------------------------------ specification
Init ==
  /\ jobStatus = [j \in Jobs |-> "open"]
  /\ bids = << >>
  /\ pc = [c \in Clients |-> "idle"]
  /\ arg = [c \in Clients |-> NoArg]
  /\ local = [c \in Clients |-> NoLocal]
  /\ completed = [c \in Clients |-> {}]
  /\ toast = "none"
  /\ lastBidRequest = "none"
  /\ conversations = << >>
  /\ messages = EmptyBag
  /\ counter = [triple |-> NoTriple, unreadCount |-> 0, loading |-> TRUE]
  /\ fetches = EmptyBag
  /\ events = 0
  /\ counterLog = "none"
  /\ bidsHasBankAccountNumber \in BOOLEAN
  /\ chat = [b \in Buttons |-> NoChat]
  /\ bidRows = [kind |-> "none", uid |-> "none", rows |-> {}]
  /\ assignedJobs = [u \in Users |-> NoAssigned]
  /\ index = OpenedAt("home")
  /\ inbox = NoInbox

\* one owner session; every request may fail in transport
Next ==
  \/ \E u \in Users, j \in Jobs, amt \in ClientAmounts(MaxRateCents, MaxHalfHours),
        ok \in BOOLEAN :
       SubmitBid(u, j, MaxRateCents, MaxHalfHours, amt, ok)
  \/ Mount("c1")
  \/ \E ok \in BOOLEAN : FetchJobs("c1", ok)
  \/ \E ok \in BOOLEAN : FetchBids("c1", ok)
  \/ \E j \in Jobs, s \in JobStatuses, ok \in BOOLEAN : UpdateJobStatus("c1", j, s, ok)
  \/ \E b \in 1..MaxBids, j \in Jobs, ok \in BOOLEAN : AcceptTarget("c1", b, j, ok)
  \/ \E ok \in BOOLEAN : AcceptSiblings("c1", ok)
  \/ \E ok \in BOOLEAN : AcceptJob("c1", ok)
  \/ \E b \in 1..MaxBids, j \in Jobs, ok \in BOOLEAN : RejectBid("c1", b, j, ok)

Spec == Init /\ [][Next]_vars

\* two sessions of the owner of j1 side by side; every request reaches the store
NextRace ==
  \/ \E u \in Users, amt \in ClientAmounts(MaxRateCents, MaxHalfHours) :
       SubmitBid(u, "j1", MaxRateCents, MaxHalfHours, amt, TRUE)
  \/ \E c \in {"c1", "c2"} : Mount(c)
  \/ \E c \in {"c1", "c2"} : FetchJobs(c, TRUE)
  \/ \E c \in {"c1", "c2"} : FetchBids(c, TRUE)
  \/ \E c \in {"c1", "c2"}, s \in JobStatuses : UpdateJobStatus(c, "j1", s, TRUE)
  \/ \E c \in {"c1", "c2"}, b \in 1..MaxBids : AcceptTarget(c, b, "j1", TRUE)
  \/ \E c \in {"c1", "c2"} : AcceptSiblings(c, TRUE)
  \/ \E c \in {"c1", "c2"} : AcceptJob(c, TRUE)
  \/ \E c \in {"c1", "c2"}, b \in 1..MaxBids : RejectBid(c, b, "j1", TRUE)

SpecRace == Init /\ [][NextRace]_vars

\* the bid form over its whole input range, with one owner session working on j1
NextAmount ==
  \/ \E u \in Users, rc \in 0..MaxRateCents, h2 \in 0..MaxHalfHours :
       \E amt \in ClientAmounts(rc, h2) : SubmitBid(u, "j1", rc, h2, amt, TRUE)
  \/ Mount("c1")
  \/ FetchJobs("c1", TRUE)
  \/ FetchBids("c1", TRUE)
  \/ \E b \in 1..MaxBids : AcceptTarget("c1", b, "j1", TRUE)
  \/ AcceptSiblings("c1", TRUE)
  \/ AcceptJob("c1", TRUE)
  \/ \E b \in 1..MaxBids : RejectBid("c1", b, "j1", TRUE)

SpecAmount == Init /\ [][NextAmount]_vars

\* the counter of the viewer, with the participants chatting around it; no
\* bid is submitted here, so one schema is enough
InitUnread == Init /\ bidsHasBankAccountNumber

NextUnread ==
  \/ \E u \in Users, t \in Triples : CreateConversation(u, t, TRUE)
  \/ \E u \in Users, k \in DOMAIN conversations : SendMessage(u, k, TRUE)
  \/ \E k \in DOMAIN conversations : MarkMessagesAsRead(Viewer, k, TRUE)
  \/ \E t \in Triples : SetProps(t)
  \/ DeliverEvent
  \/ \E f \in BagToSet(fetches), ok \in BOOLEAN : FetchConversation(f, ok)
  \/ \E f \in BagToSet(fetches), ok \in BOOLEAN : CountUnread(f, ok)
  \/ \E f \in BagToSet(fetches) : ReturnCount(f)

SpecUnread == InitUnread /\ [][NextUnread]_vars

\* the counter mounted for one triple and never given other props, with every
\* request answered without error
NextSettle ==
  \/ \E u \in Users, t \in Triples : CreateConversation(u, t, TRUE)
  \/ \E u \in Users, k \in DOMAIN conversations : SendMessage(u, k, TRUE)
  \/ \E u \in Users, k \in DOMAIN conversations : MarkMessagesAsRead(u, k, TRUE)
  \/ SetProps(<<"j1", "u1", "u2">>)
  \/ DeliverEvent
  \/ \E f \in BagToSet(fetches) : FetchConversation(f, TRUE)
  \/ \E f \in BagToSet(fetches) : CountUnread(f, TRUE)
  \/ \E f \in BagToSet(fetches) : ReturnCount(f)

SpecSettle == InitUnread /\ [][NextSettle]_vars

\* the My Jobs sessions of two accounts, each the owner of one job and free to
\* bid on the other one
NextOwners ==
  \/ \E u \in Users, j \in Jobs, amt \in ClientAmounts(MaxRateCents, MaxHalfHours) :
       SubmitBid(u, j, MaxRateCents, MaxHalfHours, amt, TRUE)
  \/ \E c \in {"c1", "c3"} : Mount(c)
  \/ \E c \in {"c1", "c3"} : FetchJobs(c, TRUE)
  \/ \E c \in {"c1", "c3"} : FetchBids(c, TRUE)
  \/ \E c \in {"c1", "c3"}, j \in Jobs, s \in JobStatuses : UpdateJobStatus(c, j, s, TRUE)
  \/ \E c \in {"c1", "c3"}, b \in 1..MaxBids, j \in Jobs : AcceptTarget(c, b, j, TRUE)
  \/ \E c \in {"c1", "c3"} : AcceptSiblings(c, TRUE)
  \/ \E c \in {"c1", "c3"} : AcceptJob(c, TRUE)
  \/ \E c \in {"c1", "c3"}, b \in 1..MaxBids, j \in Jobs : RejectBid(c, b, j, TRUE)

SpecOwners == Init /\ [][NextOwners]_vars

\* the bids table under requests of every account
NextPolicies ==
  \/ \E u \in Users, j \in Jobs, amt \in ClientAmounts(MaxRateCents, MaxHalfHours) :
       SubmitBid(u, j, MaxRateCents, MaxHalfHours, amt, TRUE)
  \/ \E uid \in Users, ids \in SUBSET (1..MaxBids), st \in BidStatuses :
       BidUpdateRequest(uid, ids, st)
  \/ \E uid \in Users : BidSelectRequest(uid)

SpecPolicies == Init /\ [][NextPolicies]_vars

\* professionals bidding, their bids changing status in the store, and their
\* Assigned Jobs pages loading
NextAssigned ==
  \/ \E u \in Users, j \in Jobs, amt \in ClientAmounts(MaxRateCents, MaxHalfHours) :
       SubmitBid(u, j, MaxRateCents, MaxHalfHours, amt, TRUE)
  \/ \E uid \in Users, i \in 1..MaxBids, st \in BidStatuses :
       BidUpdateRequest(uid, {i}, st)
  \/ \E u \in Users, ok \in BOOLEAN : FetchAssignedJobs(u, ok)

SpecAssigned == InitUnread /\ [][NextAssigned]_vars

\* one browser tab on the Index page
NextIndex ==
  \/ \E v \in Views : OpenAt(v)
  \/ \E signedIn \in BOOLEAN, role \in Roles : AuthLoaded(signedIn, role)
  \/ \E v \in Views : NavClick(v)
  \/ \E v \in Views : HandleViewChange(v)
  \/ \E v \in Views : HistoryMove(v)
  \/ \E role \in Roles : SignIn(role)
  \/ SignOut

SpecIndex == InitUnread /\ [][NextIndex]_vars

\* the chat view of the viewer while the other participants write
NextInbox ==
  \/ \E u \in Users, t \in Triples : CreateConversation(u, t, TRUE)
  \/ \E u \in Users \ {Viewer}, k \in DOMAIN conversations : SendMessage(u, k, TRUE)
  \/ OpenChat
  \/ \E k \in DOMAIN conversations : OpenConversation(k)
  \/ SelectMessages
  \/ ReceiveMessages
  \/ MarkFetchedAsRead
  \/ DeliverInsert
  \/ BackToConversations

SpecInbox == InitUnread /\ [][NextInbox]_vars

\* the chat buttons of both participants of one triple and of a second triple
NextChat ==
  \/ \E b \in Buttons, ok \in BOOLEAN : FetchConversations(b, ok)
  \/ \E b \in Buttons, ok \in BOOLEAN : HandleStartChat(b, ok)
  \/ \E b \in Buttons, ok \in BOOLEAN : CreatedConversation(b, ok)

SpecChat == InitUnread /\ [][NextChat]_vars

\* the owner of j1 working on its bids in My Jobs while the chat buttons of
\* the job's bids are used by both sides
NextLazy ==
  \/ \E u \in {"u2", "u3"}, amt \in ClientAmounts(MaxRateCents, MaxHalfHours) :
       SubmitBid(u, "j1", MaxRateCents, MaxHalfHours, amt, TRUE)
  \/ Mount("c1")
  \/ FetchJobs("c1", TRUE)
  \/ FetchBids("c1", TRUE)
  \/ \E s \in JobStatuses : UpdateJobStatus("c1", "j1", s, TRUE)
  \/ \E b \in 1..MaxBids : AcceptTarget("c1", b, "j1", TRUE)
  \/ AcceptSiblings("c1", TRUE)
  \/ AcceptJob("c1", TRUE)
  \/ \E b \in 1..MaxBids : RejectBid("c1", b, "j1", TRUE)
  \/ \E b \in Buttons : FetchConversations(b, TRUE)
  \/ \E b \in Buttons : HandleStartChat(b, TRUE)
  \/ \E b \in Buttons : CreatedConversation(b, TRUE)

SpecLazy == InitUnread /\ [][NextLazy]_vars

\* ------------------------------------------------------------------ claims
AcceptedOf(tbl, j) == {i \in BidsOfJob(tbl, j) : tbl[i].status = "accepted"}

\* C1: when acceptBid(B, J) completes without error, B is accepted, every
\* other bid of J is rejected and J is in-progress
C1_AcceptCascadeEndState ==
  [][\A c \in Clients :
       (pc[c] = "acceptJob" /\ AcceptJob(c, TRUE)) =>
         /\ bids'[arg[c].bid].status = "accepted"
         /\ \A i \in BidsOfJob(bids', arg[c].job) \ {arg[c].bid} :
              bids'[i].status = "rejected"
         /\ jobStatus'[arg[c].job] = "in-progress"]_vars

\* C2: in every reachable state each job has at most one accepted bid
C2_AtMostOneAcceptedPerJob ==
  \A j \in Jobs : Cardinality(AcceptedOf(bids, j)) <= 1

\* a cascade is between its steps on a job that has a second bid
C2_CascadeUnderWay ==
  \E c \in Clients :
    /\ pc[c] = "acceptSiblings"
    /\ Cardinality(BidsOfJob(bids, arg[c].job)) >= 2

\* C3: a client that has completed all steps of acceptBid on a job and then
\* reads the job's bids never sees two accepted bids, also when another
\* client ran acceptBid on a different bid of the job at the same time
C3_CompletedClientSeesOneAccepted ==
  \A c \in Clients : \A j \in completed[c] :
    Cardinality({i \in AcceptedOf(bids, j) : BidSelectPolicy(ClientUser[c], bids[i])}) <= 1

\* one session has completed acceptBid on a bid of j1 while the other one is
\* before the last step of acceptBid on a different bid of j1
C3_TwoCascadesOnDifferentBids ==
  /\ "j1" \in completed["c1"]
  /\ pc["c2"] = "acceptJob" /\ arg["c2"].job = "j1"
  /\ \E i \in DOMAIN local["c1"].bids :
       local["c1"].bids[i] = "accepted" /\ i # arg["c2"].bid

\* C4: a bid submitted on a job without bids is stored as pending when the
\* submitter is not the job's owner, and is rejected when it is the owner
C4_SubmitOnlyByNonOwner ==
  [][\A u \in Users, j \in Jobs, amt \in ClientAmounts(MaxRateCents, MaxHalfHours) :
       (BidsOfJob(bids, j) = {} /\ SubmitBid(u, j, MaxRateCents, MaxHalfHours, amt, TRUE)) =>
         IF u # JobOwner[j]
         THEN /\ Len(bids') = Len(bids) + 1
              /\ bids'[Len(bids')].job_id = j
              /\ bids'[Len(bids')].user_id = u
              /\ bids'[Len(bids')].status = "pending"
              /\ lastBidRequest' = "ok"
         ELSE /\ bids' = bids
              /\ lastBidRequest' = "rls"
              /\ toast' = "Error submitting bid"]_vars

\* C5: there is at most one bid for each (job, bidder) pair
C5_OneBidPerJobAndBidder ==
  \A i, k \in DOMAIN bids :
    (bids[i].job_id = bids[k].job_id /\ bids[i].professional_id = bids[k].professional_id)
      => i = k

\* a second bid of the same bidder on the same job has just been refused
C5_DuplicateRefused == lastBidRequest = "unique" /\ Len(bids) >= 1

\* C6: after every insert and update of a bid that has an hourly rate and
\* estimated hours, the stored amount is hourly_rate * estimated_hours
C6_StoredAmountIsRateTimesHours ==
  \A i \in DOMAIN bids :
    (bids[i].hourly_rate # NULL /\ bids[i].estimated_hours # NULL)
      => bids[i].amount = bids[i].hourly_rate * bids[i].estimated_hours

\* a bid with a positive total is stored and acceptBid has run to its end
C6_PricedBidAfterCascade ==
  /\ \E i \in DOMAIN bids : bids[i].amount > 0
  /\ completed["c1"] # {}

\* C7: for every rate in cent steps and every hours value in 0.5 steps the
\* amount the client computes equals the amount the store holds
C7_ClientAmountIsStoredAmount ==
  [][\A u \in Users, rc \in 0..MaxRateCents, h2 \in 0..MaxHalfHours :
       \A amt \in ClientAmounts(rc, h2) :
         (SubmitBid(u, "j1", rc, h2, amt, TRUE) /\ lastBidRequest' = "ok") =>
           bids'[Len(bids')].amount = amt]_vars

\* C8: rejectBid(B) sets the status of B to rejected and changes no other
\* bid, no job, no conversation and no message
C8_RejectChangesOnlyTarget ==
  [][\A c \in Clients, b \in DOMAIN bids, j \in Jobs :
       RejectBid(c, b, j, TRUE) =>
         /\ bids'[b].status = "rejected"
         /\ \A i \in DOMAIN bids \ {b} : bids'[i] = bids[i]
         /\ UNCHANGED <<jobStatus, conversations, messages>>]_vars

\* C9: rejectBid(B) leaves B rejected without an error, and on a bid that is
\* already rejected it changes nothing
C9_RejectIdempotent ==
  [][\A c \in Clients, b \in DOMAIN bids, j \in Jobs :
       RejectBid(c, b, j, TRUE) =>
         /\ bids'[b].status = "rejected"
         /\ toast' = "Bid rejected"
         /\ bids[b].status = "rejected" => bids' = bids]_vars

\* C10: when the lookup finds no conversation for the triple, the call ends
\* in setUnreadCount(0), which makes the unread count 0, and no error is
\* recorded
C10_NoConversationCountsZero ==
  [][\A f \in BagToSet(fetches) :
       /\ (LookupConversation(f) = {} /\ FetchConversation(f, TRUE)) =>
            /\ fetches' = (fetches (-) SetToBag({f})) (+) SetToBag({Outcome(0)})
            /\ counterLog' = counterLog
       /\ (f = Outcome(0) /\ ReturnCount(f)) =>
            /\ counter'.unreadCount = 0
            /\ counter'.loading = FALSE
            /\ counterLog' = counterLog]_vars

\* the counter has finished, without any error, for a triple that has no
\* conversation while unread messages to the viewer sit in another one
C10_SettledWithoutConversation ==
  /\ counter.triple \in Triples
  /\ \A k \in DOMAIN conversations : TripleOf(conversations[k]) # counter.triple
  /\ fetches = EmptyBag
  /\ counterLog = "none"
  /\ counter.unreadCount = 0 /\ ~ counter.loading
  /\ \E r \in BagToSet(messages) : r.recipient_id = Viewer /\ ~ r.read

\* the one kind of row that is unread, addressed to the viewer and part of
\* conversation k: sent by the other participant
UnreadToViewer(k) ==
  [conversation_id |-> k,
   sender_id |-> IF conversations[k].job_poster_id = Viewer
                 THEN conversations[k].professional_id
                 ELSE conversations[k].job_poster_id,
   recipient_id |-> Viewer,
   read |-> FALSE]

\* C11: when the conversation exists and both requests succeed, the count the
\* call stores is the number of unread messages to the viewer in that
\* conversation at the time of the count query, and nothing else is counted
C11_CountIsUnreadToViewer ==
  [][\A f \in BagToSet(fetches) :
       /\ (f.stage = "count" /\ CountUnread(f, TRUE)) =>
            fetches' = (fetches (-) SetToBag({f}))
                       (+) SetToBag({Outcome(CopiesIn(UnreadToViewer(f.conv), messages))})
       /\ ReturnCount(f) => counter'.unreadCount = f.count]_vars

\* a count of 1 is shown for a conversation that holds one unread message to
\* the viewer, while the store holds a second message that is not counted
C11_OneCountedOneNot ==
  /\ fetches = EmptyBag /\ counterLog = "none"
  /\ counter.unreadCount = 1
  /\ BagCardinality(messages) = 2
  /\ \E k \in DOMAIN conversations :
       /\ TripleOf(conversations[k]) = counter.triple
       /\ CopiesIn(UnreadToViewer(k), messages) = 1

\* nothing is under way for the counter: no event waits, no call is in flight
CounterSettled == Subscribed /\ events = 0 /\ fetches = EmptyBag

\* C12: after all unread messages to the viewer in a conversation are marked
\* read, the count for its triple becomes 0 without further user action: once
\* the counter has settled with messages marked read and none unread in the
\* conversation of its triple, it shows 0
C12_AllReadSettlesAtZero ==
  \A k \in DOMAIN conversations :
    ( /\ CounterSettled
      /\ TripleOf(conversations[k]) = counter.triple
      /\ CopiesIn([UnreadToViewer(k) EXCEPT !.read = TRUE], messages) > 0
      /\ CopiesIn(UnreadToViewer(k), messages) = 0 )
    => counter.unreadCount = 0

\* C13: the unread count is a non-negative integer, is 0 while loading, and is
\* 0 whenever the conversation lookup or the count query fails, also on a
\* recomputation that follows a non-zero count
C13_ZeroOnFailure ==
  [][/\ counter'.unreadCount \in Nat
     /\ counter'.loading => counter'.unreadCount = 0
     /\ \A f \in BagToSet(fetches) :
          (FetchConversation(f, FALSE) \/ CountUnread(f, FALSE)) =>
            counter'.unreadCount = 0]_vars

\* C14: the store holds at most one conversation per (job, poster,
\* professional) triple, also when both participants start chat at once
C14_OneConversationPerTriple ==
  \A i, k \in DOMAIN conversations :
    TripleOf(conversations[i]) = TripleOf(conversations[k]) => i = k

\* both participants of one triple started chat while neither had the
\* conversation in its list: one created it, the other was refused
C14_ConcurrentStartRefused ==
  /\ chat["b1"].result = "created"
  /\ chat["b2"].result = "unique" /\ chat["b2"].conversations = {}

C16_AcceptWritesFromOpen ==
  [][\A c \in Clients :
       (pc[c] = "acceptJob" /\ AcceptJob(c, TRUE)
          /\ jobStatus'[arg[c].job] # jobStatus[arg[c].job])
       => jobStatus[arg[c].job] = "open"]_vars

\* C17: a partial cascade is not rolled back: if step (a) succeeded and step
\* (b) fails, the target stays accepted, no bid and no job changes and step
\* (c) is not issued; if step (a) fails, nothing in the store changes
C17_PartialCascadeStays ==
  [][\A c \in Clients :
       /\ (pc[c] = "acceptSiblings" /\ AcceptSiblings(c, FALSE)) =>
            /\ bids'[arg[c].bid].status = "accepted"
            /\ bids' = bids /\ jobStatus' = jobStatus
            /\ pc'[c] = "idle"
       /\ \A b \in DOMAIN bids, j \in Jobs :
            AcceptTarget(c, b, j, FALSE) =>
              /\ bids' = bids /\ jobStatus' = jobStatus
              /\ pc'[c] = "idle"]_vars

\* C18: if any of the three steps of acceptBid fails, the operation ends with
\* the 'Failed to accept bid' notification and not with the success one
C18_AnyFailedStepIsAnError ==
  [][\A c \in Clients :
       ( \/ \E b \in DOMAIN bids, j \in Jobs : AcceptTarget(c, b, j, FALSE)
         \/ pc[c] = "acceptSiblings" /\ AcceptSiblings(c, FALSE)
         \/ pc[c] = "acceptJob" /\ AcceptJob(c, FALSE) )
       => toast' = "Failed to accept bid"]_vars

\* C19: under the row-level policies a bid row is changed only by update
\* requests of the bid's owner, and returned only to select requests of the
\* bid's owner or of the owner of the bid's job
C19_BidPolicies ==
  [][/\ \A i \in DOMAIN bids :
          bids'[i] # bids[i] =>
            bidRows'.kind = "update" /\ bidRows'.uid = bids[i].user_id
     /\ \A i \in bidRows'.rows :
          bidRows'.uid \in {bids'[i].user_id, JobOwner[bids'[i].job_id]}]_vars

\* a bidder's own update has changed its bid, and a select of an account that
\* neither placed a bid nor owns a job with bids has returned nothing
C19_OwnerChangedStrangerSawNothing ==
  /\ \E i \in DOMAIN bids : bids[i].status = "rejected"
  /\ Len(bids) = MaxBids
  /\ bidRows.kind = "select" /\ bidRows.rows = {}

\* the message rows a step has inserted or updated
TouchedMessages == messages' (-) messages

\* C20: while the counter is mounted, every message event whose recipient is
\* the viewer triggers a recomputation of the count for the counter's own
\* triple, whatever conversation the message is in, and events addressed to
\* other recipients trigger none: a step that inserts or updates messages
\* raises one event per touched row addressed to the viewer and no other, the
\* delivery of an event starts one count for the counter's triple, and no
\* count is started otherwise
C20_ViewerEventsRecompute ==
  [][Subscribed =>
       /\ messages' # messages =>
            events' = events + BagCardinality(Matching(TouchedMessages,
                         {r \in BagToSet(TouchedMessages) : r.recipient_id = Viewer}))
       /\ events' < events =>
            /\ events' = events - 1
            /\ fetches' = fetches (+) SetToBag({NewFetch(counter.triple)})
       /\ events' >= events =>
            CopiesIn(NewFetch(counter.triple), fetches')
              <= CopiesIn(NewFetch(counter.triple), fetches)]_vars

\* after the count of the mount has returned, one message to the viewer in the
\* conversation of another triple and one message to another account are
\* stored, and exactly one count for the counter's triple is under way
C20_OtherConversationRecomputes ==
  /\ Subscribed /\ ~ counter.loading /\ events = 0
  /\ fetches = SetToBag({NewFetch(counter.triple)})
  /\ \E r1, r2 \in BagToSet(messages) :
       /\ r1.recipient_id = Viewer
       /\ TripleOf(conversations[r1.conversation_id]) # counter.triple
       /\ r2.recipient_id # Viewer
       /\ BagCardinality(messages) = 2

\* C21: acceptBid, rejectBid and updateJobStatus never create a conversation;
\* a conversation row for a triple comes to exist only in a step in which a
\* chat button of a participant of that triple runs handleStartChat up to
\* the insert of createConversation
C21_ConversationsOnlyByStartChat ==
  [][conversations' # conversations =>
       /\ UNCHANGED <<jobStatus, bids, pc, toast>>
       /\ \E b \in Buttons :
            /\ chat[b].pc = "idle" /\ chat'[b].pc = "created"
            /\ ButtonUser[b] \in {ButtonTriple[b][2], ButtonTriple[b][3]}
            /\ conversations' = Append(conversations,
                                       [job_id |-> ButtonTriple[b][1],
                                        job_poster_id |-> ButtonTriple[b][2],
                                        professional_id |-> ButtonTriple[b][3]])]_vars

\* the accept cascade has run to its end on j1 with bids of both bidders and
\* the only conversation stored is the one started from the button of u3
C21_AcceptedWithoutConversation ==
  /\ "j1" \in completed["c1"]
  /\ jobStatus["j1"] = "in-progress"
  /\ Len(bids) = 2
  /\ Len(conversations) = 1
  /\ TripleOf(conversations[1]) = <<"j1", "u1", "u3">>

\* C22: change job status accepts any target status from any current status:
\* updateJobStatus on a job with a target t, when its request reaches the
\* store, leaves the job in status t whatever its status was, reports
\* success and changes no bid
C22_AnyStatusFromAnyStatus ==
  [][\A c \in Clients, j \in Jobs, t \in JobStatuses :
       UpdateJobStatus(c, j, t, TRUE) =>
         /\ jobStatus'[j] = t
         /\ local'[c].jobs[j] = t
         /\ toast' = "Job status updated"
         /\ bids' = bids]_vars

\* j1, which has a bid, was completed when the second session loaded it and
\* has been set back to open from the first session
C22_CompletedJobReopened ==
  /\ local["c2"].jobs = [j \in {"j1"} |-> "completed"]
  /\ local["c1"].jobs = [j \in {"j1"} |-> "open"]
  /\ jobStatus["j1"] = "open"
  /\ toast = "Job status updated"
  /\ Len(bids) >= 1

\* C23: fetchAssignedJobs returns, for the signed-in professional, exactly
\* the jobs on which that professional has an accepted bid, one entry per
\* such bid and none for pending or rejected bids
C23_AssignedAreAccepted ==
  [][\A u \in Users :
       FetchAssignedJobs(u, TRUE) =>
         assignedJobs'[u].jobs =
           [i \in {b \in DOMAIN bids : bids[b].professional_id = u
                                       /\ bids[b].status = "accepted"}
              |-> bids[i].job_id]]_vars

\* C24: auth guard: in every state where authentication has finished loading
\* and no user is signed in, the displayed view is 'auth'
C24_SignedOutSeesAuth ==
  (~ index.loading /\ ~ index.isAuthenticated) => index.currentView = "auth"

\* the rows of sequence list with field conversation_id = k
OfConversation(list, k) == SelectSeq(list, LAMBDA r : r.conversation_id = k)

StoredFor(k) ==
  BagCardinality(Matching(messages, {r \in BagToSet(messages) :
                                       r.conversation_id = k /\ r.recipient_id = Viewer}))

\* C29: while the viewer keeps a conversation open, every message addressed
\* to the viewer in it, also one inserted while fetchMessages was in flight,
\* is displayed exactly once: when no fetchMessages call is in flight and no
\* event waits, the displayed list has as many messages of the conversation
\* as the store
C29_DisplayedOnceEach ==
  (inbox.active # 0 /\ inbox.fetch.stage = "none" /\ inbox.pending = << >>)
    => Len(OfConversation(inbox.messages, inbox.active)) = StoredFor(inbox.active)

\* C26: when two clients run acceptBid on two different bids of the same job
\* side by side and both complete all three steps without error, the store
\* ends with exactly one accepted bid of the job, one of the two targets, and
\* the job in-progress
C26_TwoCascadesOneAccepted ==
  [][\A c, d \in Clients :
       \A i \in DOMAIN local[d].bids :
         ( /\ c # d
           /\ pc[c] = "acceptJob" /\ AcceptJob(c, TRUE)
           /\ arg[c].job \in completed[d] /\ pc[d] = "idle"
           /\ i \in BidsOfJob(bids, arg[c].job) /\ i # arg[c].bid
           /\ local[d].bids[i] = "accepted" )
         => /\ jobStatus'[arg[c].job] = "in-progress"
            /\ \E t \in {arg[c].bid, i} : AcceptedOf(bids', arg[c].job) = {t}]_vars

\* C27: after acceptBid has returned and no other client has written, the
\* client's local view of the job (its status and the statuses of its bids)
\* equals the store's, and the local bids are marked accepted / rejected with
\* 'Bid accepted successfully!' only if all three store writes took effect
C27_LocalViewIsStore ==
  [][\A c \in Clients, ok \in BOOLEAN :
       (pc[c] = "acceptJob" /\ AcceptJob(c, ok)) =>
         LET j == arg[c].job
             b == arg[c].bid
         IN /\ local'[c].jobs[j] = jobStatus'[j]
            /\ \A i \in DOMAIN local'[c].bids :
                 i \in BidsOfJob(bids', j) => local'[c].bids[i] = bids'[i].status
            /\ (toast' = "Bid accepted successfully!" /\ local'[c].bids[b] = "accepted") =>
                 /\ bids'[b].status = "accepted"
                 /\ \A i \in BidsOfJob(bids', j) \ {b} : bids'[i].status = "rejected"
                 /\ jobStatus'[j] = "in-progress"]_vars

\* C28: a job that is in-progress as the result of a completed accept
\* cascade has no pending bids: submit bid adds no pending bid to a job that
\* is not open, and no bid of the job is left pending when the cascade has
\* completed
C28_NoPendingOnAcceptedJob ==
  [][/\ \A u \in Users, j \in Jobs, amt \in ClientAmounts(MaxRateCents, MaxHalfHours) :
          (jobStatus[j] # "open" /\ SubmitBid(u, j, MaxRateCents, MaxHalfHours, amt, TRUE))
            => Len(bids') = Len(bids)
     /\ \A c \in Clients : \A j \in completed'[c] :
          jobStatus'[j] = "in-progress" =>
            \A i \in BidsOfJob(bids', j) : bids'[i].status # "pending"]_vars

\* C30: once message events for the viewer have stopped arriving and every
\* count computation in flight has returned, the displayed unread count is
\* the store's number of unread messages addressed to the viewer in the
\* conversation of the counter's triple (0 when there is none), whatever the
\* order in which the responses of overlapping computations returned
C30_SettledCountIsStoreCount ==
  CounterSettled =>
    counter.unreadCount =
      IF \E k \in DOMAIN conversations : TripleOf(conversations[k]) = counter.triple
      THEN CopiesIn(UnreadToViewer(CHOOSE k \in DOMAIN conversations :
                                     TripleOf(conversations[k]) = counter.triple),
                    messages)
      ELSE 0

====
